---- MODULE Spec2Model ----
(***************************************************************************)
(* Router data plane of rumqttd: the DataLog (filter entries, topic to     *)
(* filters cache, waiters, retained publishes, read markers) and the       *)
(* per-connection AckLog of src/rumqttd/src/router/logs.rs.                *)
(*                                                                         *)
(* FilterIdx values are the 0-based keys of the slab `native`; the slab is *)
(* held as a sequence, so key i is element i + 1.  Option<T> values are    *)
(* sequences of length at most one: <<>> is None and <<x>> is Some(x).     *)
(***************************************************************************)
EXTENDS Integers, Sequences, FiniteSets, TLC

\* ------------------------------------------------------------------ bounds
\* RouterConfig.max_segment_size, in bytes
max_segment_size == 2
\* RouterConfig.max_segment_count
max_segment_count == 2
\* payload sizes of the publishes the driver appends
MaxPayload == 1
\* longest RouterConfig.initialized_filters list
MaxWarmup == 2
\* total number of DataLog::park calls
MaxParks == 3
\* total number of Data::append calls while waiters are followed
MaxWakes == 2
\* connection ids are 1..MaxConn
MaxConn == 2
\* total number of AckLog calls on the one AckLog modelled
MaxAcks == 3
\* what the calls may put into the DataLog while every operation is followed
MaxCalls == 2
\* payload sizes of the publishes clients ask to retain
MaxRetainedPayload == 2
\* total number of appends by handle_retained_messages
MaxRetainedAppends == 3
\* payload sizes of the publishes appended while one log is followed
MaxLogPayload == 2
\* total number of Data::append calls while one log is followed
MaxLogAppends == 4
\* length of the long strings of PubComp properties
LongStringLen == 120
\* longest user_properties list of a PubComp
MaxUserProperties == 2
\* PubComp packets in the buffer at once
MaxBuffered == 1

\* ---------------------------------------------------------------- universe
\* Topics and filters are their `/`-separated levels.
Filters == { <<"a", "b">>, <<"a", "+">>, <<"#">> }

Topics == { <<"a", "b">>, <<"a", "c">> }

ConnectionIds == 1..MaxConn

Publishes == [topic : Topics, payload : 1..MaxPayload]

None == <<>>

Some(x) == <<x>>

\* All orderings of the finite set S (the iteration orders of a HashMap).
RECURSIVE Orderings(_)
Orderings(S) ==
    IF S = {} THEN { <<>> }
    ELSE UNION { { <<x>> \o r : r \in Orderings(S \ {x}) } : x \in S }

Range(s) == { s[i] : i \in DOMAIN s }

\* ------------------------------------------------------ protocol::matches
IsSystemLevel(level) == level \in { "$SYS" }

RECURSIVE matches_levels(_, _)
matches_levels(topic, filter) ==
    IF filter = <<>> THEN topic = <<>>
    ELSE IF Head(filter) = "#" THEN Len(filter) = 1
    ELSE IF topic = <<>> THEN FALSE
    ELSE IF Head(filter) = "+"
         THEN ~IsSystemLevel(Head(topic)) /\ matches_levels(Tail(topic), Tail(filter))
    ELSE Head(filter) = Head(topic) /\ matches_levels(Tail(topic), Tail(filter))

matches(topic, filter) ==
    IF topic # <<>> /\ IsSystemLevel(Head(topic))
       /\ filter # <<>> /\ Head(filter) \in { "+", "#" }
    THEN FALSE
    ELSE matches_levels(topic, filter)

\* ---------------------------------------------------------------- Offsets
\* Offset = (segment_id, position), ordered lexicographically.
OffsetLT(a, b) == a[1] < b[1] \/ (a[1] = b[1] /\ a[2] < b[2])

OffsetLE(a, b) == a = b \/ OffsetLT(a, b)

\* Option<Offset> order of Rust: None < Some(_), Some(a) < Some(b) iff a < b.
OptOffsetLT(a, b) ==
    IF b = None THEN FALSE
    ELSE IF a = None THEN TRUE
    ELSE OffsetLT(a[1], b[1])

\* -------------------------------------------------------------- CommitLog
\* Live segments head .. head + Len(segments) - 1, each a sequence of items.
CommitLog_new == [head |-> 0, segments |-> <<>>]

Storage_size(item) == item.payload

RECURSIVE SegmentSize(_)
SegmentSize(segment) ==
    IF segment = <<>> THEN 0
    ELSE Storage_size(Head(segment)) + SegmentSize(Tail(segment))

CommitLog_tail(log) ==
    IF log.segments = <<>> THEN log.head ELSE log.head + Len(log.segments) - 1

CommitLog_active(log) == log.segments[Len(log.segments)]

\* Whether appending `size` bytes seals the active segment and opens a new one.
CommitLog_rolls(log, size) ==
    /\ log.segments # <<>>
    /\ CommitLog_active(log) # <<>>
    /\ SegmentSize(CommitLog_active(log)) + size > max_segment_size

\* [log |-> the log after the append, offset |-> where the item landed]
CommitLog_append(log, item) ==
    IF log.segments = <<>>
    THEN [log |-> [log EXCEPT !.segments = << <<item>> >>],
          offset |-> <<log.head, 0>>]
    ELSE IF CommitLog_rolls(log, Storage_size(item))
    THEN LET opened == Append(log.segments, <<item>>)
             tail == CommitLog_tail(log) + 1
         IN  IF Len(opened) > max_segment_count
             THEN [log |-> [head |-> log.head + 1, segments |-> Tail(opened)],
                   offset |-> <<tail, 0>>]
             ELSE [log |-> [log EXCEPT !.segments = opened],
                   offset |-> <<tail, 0>>]
    ELSE LET n == Len(log.segments)
         IN  [log |-> [log EXCEPT !.segments[n] = Append(@, item)],
              offset |-> <<CommitLog_tail(log), Len(log.segments[n])>>]

CommitLog_next_offset(log) ==
    IF log.segments = <<>> THEN <<log.head, 0>>
    ELSE IF SegmentSize(CommitLog_active(log)) >= max_segment_size
    THEN <<CommitLog_tail(log) + 1, 0>>
    ELSE <<CommitLog_tail(log), Len(CommitLog_active(log))>>

CommitLog_last(log) ==
    IF log.segments = <<>> \/ CommitLog_active(log) = <<>> THEN None
    ELSE Some(CommitLog_active(log)[Len(CommitLog_active(log))])

CommitLog_head_and_tail(log) == <<log.head, CommitLog_tail(log)>>

\* ---------------------------------------------------------------- Waiters
\* A queue of <<ConnectionId, DataRequest>> pairs.
Waiters_with_capacity == <<>>

Waiters_register(waiters, id, request) == Append(waiters, <<id, request>>)

\* [waiters |-> the set after the call, taken |-> Option of what was waiting]
Waiters_take(waiters) ==
    IF waiters = <<>>
    THEN [waiters |-> waiters, taken |-> None]
    ELSE [waiters |-> <<>>, taken |-> Some(waiters)]

RECURSIVE RequestsOf(_)
RequestsOf(entries) ==
    IF entries = <<>> THEN <<>>
    ELSE <<Head(entries)[2]>> \o RequestsOf(Tail(entries))

\* [waiters |-> the set without id's entries, removed |-> id's requests]
Waiters_remove(waiters, id) ==
    LET Is(entry) == entry[1] = id
        IsNot(entry) == entry[1] # id
    IN  [waiters |-> SelectSeq(waiters, IsNot),
         removed |-> RequestsOf(SelectSeq(waiters, Is))]

\* ------------------------------------------------------------------- Data
SubscriptionMeter_default ==
    [count |-> 0, append_offset |-> <<0, 0>>, total_size |-> 0,
     head_and_tail_id |-> <<0, 0>>]

Data_new(filter) ==
    [filter |-> filter, log |-> CommitLog_new,
     waiters |-> Waiters_with_capacity, meter |-> SubscriptionMeter_default]

\* Data::append taking the waiters without handing them to the notifications
Data_append_wake_dropped(waiters, notifs) ==
    [waiters |-> Waiters_take(waiters).waiters, notifications |-> notifs]

\* Where Data::append hands the parked waiters to.
Data_append_wake(waiters, notifs) ==
    LET t == Waiters_take(waiters)
    IN  [waiters |-> t.waiters,
         notifications |-> IF t.taken = None THEN notifs ELSE notifs \o t.taken[1]]

\* Data::append leaving meter.append_offset as it was
Data_append_stale_offset(data, item, notifs) ==
    LET size == Storage_size(item)
        a == CommitLog_append(data.log, item)
        w == Data_append_wake(data.waiters, notifs)
    IN  [data |-> [filter |-> data.filter,
                   log |-> a.log,
                   waiters |-> w.waiters,
                   meter |-> [count |-> data.meter.count + 1,
                              append_offset |-> data.meter.append_offset,
                              total_size |-> data.meter.total_size + size,
                              head_and_tail_id |-> CommitLog_head_and_tail(a.log)]],
         notifications |-> w.notifications,
         offset |-> a.offset]

\* [data, notifications, offset] after Data::append(item, notifications)
Data_append(data, item, notifs) ==
    LET size == Storage_size(item)
        a == CommitLog_append(data.log, item)
        w == Data_append_wake(data.waiters, notifs)
    IN  [data |-> [filter |-> data.filter,
                   log |-> a.log,
                   waiters |-> w.waiters,
                   meter |-> [count |-> data.meter.count + 1,
                              append_offset |-> a.offset,
                              total_size |-> data.meter.total_size + size,
                              head_and_tail_id |-> CommitLog_head_and_tail(a.log)]],
         notifications |-> w.notifications,
         offset |-> a.offset]

\* ------------------------------------------------- rumqttc v5 PubComp codec
\* Bytes are 0..255, a buffer is a sequence of bytes and a String is the
\* sequence of its (ASCII) bytes.  A Result is [ok |-> TRUE, value |-> v] or
\* [ok |-> FALSE, error |-> e]; a reader also returns the bytes it left.
Ok(v) == [ok |-> TRUE, value |-> v]

Err(e) == [ok |-> FALSE, error |-> e]

Read(v, rest) == [ok |-> TRUE, value |-> v, rest |-> rest]

\* a String of n bytes
RECURSIVE Repeat(_, _)
Repeat(byte, n) == IF n = 0 THEN <<>> ELSE <<byte>> \o Repeat(byte, n - 1)

\* Bytes::advance
advance(bytes, n) == SubSeq(bytes, n + 1, Len(bytes))

\* Number of bytes of the variable-length integer len
len_len(n) ==
    IF n >= 2097152 THEN 4
    ELSE IF n >= 16384 THEN 3
    ELSE IF n >= 128 THEN 2
    ELSE 1

\* The bytes write_remaining_length puts: 7 bits a byte, least significant
\* first, bit 7 set on all but the last.
RECURSIVE write_remaining_length(_)
write_remaining_length(n) ==
    IF n \div 128 > 0
    THEN <<(n % 128) + 128>> \o write_remaining_length(n \div 128)
    ELSE <<n % 128>>

\* length(stream): Result of <<len_len, len>> of the variable-length integer
\* at the front of stream.
RECURSIVE length_from(_, _, _, _)
length_from(stream, len_len_, n, shift) ==
    IF stream = <<>> THEN Err("InsufficientBytes")
    ELSE LET byte == Head(stream)
             sum == n + (byte % 128) * (2 ^ shift)
         IN  IF byte < 128 THEN Ok(<<len_len_ + 1, sum>>)
             ELSE IF shift + 7 > 21 THEN Err("MalformedRemainingLength")
             ELSE length_from(Tail(stream), len_len_ + 1, sum, shift + 7)

length(stream) == length_from(stream, 0, 0, 0)

read_u8(bytes) ==
    IF Len(bytes) < 1 THEN Err("MalformedPacket")
    ELSE Read(bytes[1], advance(bytes, 1))

\* big-endian
read_u16(bytes) ==
    IF Len(bytes) < 2 THEN Err("MalformedPacket")
    ELSE Read(bytes[1] * 256 + bytes[2], advance(bytes, 2))

put_u16(n) == <<(n \div 256) % 256, n % 256>>

read_mqtt_string(bytes) ==
    LET n == read_u16(bytes)
    IN  IF ~n.ok THEN n
        ELSE IF n.value > Len(n.rest) THEN Err("BoundaryCrossed")
        ELSE Read(SubSeq(n.rest, 1, n.value), advance(n.rest, n.value))

write_mqtt_string(string) == put_u16(Len(string)) \o string

\* PropertyType as u8
ReasonString == 31

UserProperty == 38

property(num) ==
    IF num = ReasonString THEN Ok("ReasonString")
    ELSE IF num = UserProperty THEN Ok("UserProperty")
    ELSE Err("InvalidPropertyType")

\* FixedHeader of the packet at the front of stream
parse_fixed_header(stream) ==
    IF Len(stream) < 2 THEN Err("InsufficientBytes")
    ELSE LET l == length(Tail(stream))
         IN  IF ~l.ok THEN l
             ELSE Ok([byte1 |-> stream[1],
                      fixed_header_len |-> l.value[1] + 1,
                      remaining_len |-> l.value[2]])

\* PubCompReason
PubCompReason == { "Success", "PacketIdentifierNotFound" }

reason(num) ==
    IF num = 0 THEN Ok("Success")
    ELSE IF num = 146 THEN Ok("PacketIdentifierNotFound")
    ELSE Err("InvalidConnectReturnCode")

\* code giving the byte of Success for every reason
code_always_success(r) == 0

code(r) == IF r = "Success" THEN 0 ELSE 146

\* PubCompProperties::len
RECURSIVE user_properties_len(_)
user_properties_len(user_properties) ==
    IF user_properties = <<>> THEN 0
    ELSE 1 + 2 + Len(Head(user_properties)[1]) + 2 + Len(Head(user_properties)[2])
         + user_properties_len(Tail(user_properties))

PubCompProperties_len(p) ==
    (IF p.reason_string # None THEN 1 + 2 + Len(p.reason_string[1]) ELSE 0)
    + user_properties_len(p.user_properties)

\* PubCompProperties::write: the bytes it puts
RECURSIVE user_properties_write(_)
user_properties_write(user_properties) ==
    IF user_properties = <<>> THEN <<>>
    ELSE <<UserProperty>> \o write_mqtt_string(Head(user_properties)[1])
         \o write_mqtt_string(Head(user_properties)[2])
         \o user_properties_write(Tail(user_properties))

PubCompProperties_write(p) ==
    write_remaining_length(PubCompProperties_len(p))
    \o (IF p.reason_string # None
        THEN <<ReasonString>> \o write_mqtt_string(p.reason_string[1])
        ELSE <<>>)
    \o user_properties_write(p.user_properties)

\* The loop of PubCompProperties::read
RECURSIVE read_properties(_, _, _, _, _)
read_properties(bytes, cursor, properties_len, reason_string, user_properties) ==
    IF ~(cursor < properties_len)
    THEN Read(Some([reason_string |-> reason_string,
                    user_properties |-> user_properties]), bytes)
    ELSE LET prop == read_u8(bytes)
         IN  IF ~prop.ok THEN prop
             ELSE IF ~property(prop.value).ok THEN property(prop.value)
             ELSE IF property(prop.value).value = "ReasonString"
             THEN LET r == read_mqtt_string(prop.rest)
                  IN  IF ~r.ok THEN r
                      ELSE read_properties(r.rest, cursor + 1 + 2 + Len(r.value),
                                           properties_len, Some(r.value),
                                           user_properties)
             ELSE LET key == read_mqtt_string(prop.rest)
                  IN  IF ~key.ok THEN key
                      ELSE LET value == read_mqtt_string(key.rest)
                           IN  IF ~value.ok THEN value
                               ELSE read_properties(
                                        value.rest,
                                        cursor + 1 + 2 + Len(key.value) + 2 + Len(value.value),
                                        properties_len, reason_string,
                                        Append(user_properties, <<key.value, value.value>>))

\* PubCompProperties::read: Result of Option<PubCompProperties>
PubCompProperties_read(bytes) ==
    LET l == length(bytes)
    IN  IF ~l.ok THEN l
        ELSE IF l.value[2] = 0 THEN Read(None, advance(bytes, l.value[1]))
        ELSE read_properties(advance(bytes, l.value[1]), 0, l.value[2], None, <<>>)

\* PubComp::len counting one byte for the property length
PubComp_len_short_property_length(self) ==
    IF self.reason = "Success" /\ self.properties = None THEN 2
    ELSE IF self.properties # None
    THEN 2 + 1 + 1 + PubCompProperties_len(self.properties[1])
    ELSE 2 + 1 + 1

\* PubComp::len
PubComp_len(self) ==
    IF self.reason = "Success" /\ self.properties = None THEN 2
    ELSE IF self.properties # None
    THEN 2 + 1 + len_len(PubCompProperties_len(self.properties[1]))
         + PubCompProperties_len(self.properties[1])
    ELSE 2 + 1 + 1

\* PubComp::size
PubComp_size(self) ==
    IF self.reason = "Success" /\ self.properties = None THEN 4
    ELSE 1 + len_len(PubComp_len(self)) + PubComp_len(self)

\* PubComp::write: [buffer |-> the buffer after the call, result |-> Ok(count)]
PubComp_write(self, buffer) ==
    LET n == PubComp_len(self)
        count == Len(write_remaining_length(n))
        head == buffer \o <<112>> \o write_remaining_length(n) \o put_u16(self.pkid)
    IN  IF self.reason = "Success" /\ self.properties = None
        THEN [buffer |-> head, result |-> Ok(4)]
        ELSE [buffer |-> head \o <<code(self.reason)>>
                         \o (IF self.properties # None
                             THEN PubCompProperties_write(self.properties[1])
                             ELSE write_remaining_length(0)),
              result |-> Ok(1 + count + n)]

\* PubComp::read: Result of PubComp
PubComp_read(fixed_header, bytes) ==
    LET pkid == read_u16(advance(bytes, fixed_header.fixed_header_len))
    IN  IF ~pkid.ok THEN Err(pkid.error)
        ELSE IF fixed_header.remaining_len = 2
        THEN Ok([pkid |-> pkid.value, reason |-> "Success", properties |-> None])
        ELSE LET ack_reason == read_u8(pkid.rest)
             IN  IF ~ack_reason.ok THEN Err(ack_reason.error)
                 ELSE IF fixed_header.remaining_len < 4
                 THEN IF ~reason(ack_reason.value).ok THEN reason(ack_reason.value)
                      ELSE Ok([pkid |-> pkid.value,
                               reason |-> reason(ack_reason.value).value,
                               properties |-> None])
                 ELSE LET properties == PubCompProperties_read(ack_reason.rest)
                      IN  IF ~properties.ok THEN Err(properties.error)
                          ELSE IF ~reason(ack_reason.value).ok
                          THEN reason(ack_reason.value)
                          ELSE Ok([pkid |-> pkid.value,
                                   reason |-> reason(ack_reason.value).value,
                                   properties |-> properties.value])

\* ------------------------------------------------------------------ state
VARIABLES
    native,               \* DataLog.native: Slab<Data<Publish>>
    filter_indexes,       \* DataLog.filter_indexes: Filter -> FilterIdx
    retained_publishes,   \* DataLog.retained_publishes: Topic -> Publish
    publish_filters,      \* DataLog.publish_filters: Topic -> Vec<FilterIdx>
    filter_read_markers,  \* DataLog.filter_read_markers: FilterIdx -> ReadMarker
    notifications,        \* the driver's queue handed to Data::append
    committed,            \* AckLog.committed
    recorded,             \* AckLog.recorded
    deferred_acks,        \* AckLog.deferred_acks
    ret,                  \* the last call: [op, arg, val], val its return value
    parks,                \* number of DataLog::park calls so far
    issued,               \* every <<filter, idx>> next_native_offset has returned
    handed,               \* every [puback, offset_map] given to insert_pending_acks
    buffer,               \* the BytesMut PubComp::write appends to
    written               \* the PubComp packets written to buffer and not read yet

datalog_vars ==
    <<native, filter_indexes, retained_publishes, publish_filters, filter_read_markers>>

acklog_vars == <<committed, recorded, deferred_acks>>

codec_vars == <<buffer, written>>

vars ==
    <<native, filter_indexes, retained_publishes, publish_filters,
      filter_read_markers, notifications, committed, recorded, deferred_acks,
      ret, parks, issued, handed, codec_vars>>

\* ------------------------------------------------------- HashMap and Slab
EmptyMap == [k \in {} |-> None]

HashMap_insert(map, key, value) ==
    [k \in DOMAIN map \cup {key} |-> IF k = key THEN value ELSE map[k]]

HashMap_remove(map, key) == [k \in DOMAIN map \ {key} |-> map[k]]

\* No entry of the slab is ever removed, so the vacant key is its length.
Slab_insert(slab, data) == [slab |-> Append(slab, data), key |-> Len(slab)]

Slab_contains(slab, idx) == idx \in 0..(Len(slab) - 1)

Slab_get(slab, idx) == slab[idx + 1]

Slab_keys(slab) == 0..(Len(slab) - 1)

\* ------------------------------------------------------------ DataLog::new
RECURSIVE warmup(_, _, _)
warmup(warmup_filters, slab, indexes) ==
    IF warmup_filters = <<>> THEN [native |-> slab, filter_indexes |-> indexes]
    ELSE LET filter == Head(warmup_filters)
             ins == Slab_insert(slab, Data_new(filter))
         IN  warmup(Tail(warmup_filters), ins.slab,
                    HashMap_insert(indexes, filter, ins.key))

DataLog_new(initialized_filters) ==
    IF initialized_filters = None
    THEN [native |-> <<>>, filter_indexes |-> EmptyMap]
    ELSE warmup(initialized_filters[1], <<>>, EmptyMap)

\* RouterConfig.initialized_filters: None, or a list of filters
InitializedFilters ==
    { None } \cup
    { Some(l) : l \in UNION { [1..n -> Filters] : n \in 0..MaxWarmup } }

AckLog_new == [committed |-> <<>>, recorded |-> <<>>, deferred_acks |-> <<>>]

\* The state after DataLog::new(config) and AckLog::new()
InitWith(initialized_filters) ==
    /\ native = DataLog_new(initialized_filters).native
    /\ filter_indexes = DataLog_new(initialized_filters).filter_indexes
    /\ retained_publishes = EmptyMap
    /\ publish_filters = EmptyMap
    /\ filter_read_markers = EmptyMap
    /\ notifications = <<>>
    /\ committed = AckLog_new.committed
    /\ recorded = AckLog_new.recorded
    /\ deferred_acks = AckLog_new.deferred_acks
    /\ ret = [op |-> "new", arg |-> initialized_filters, val |-> None]
    /\ parks = 0
    /\ issued = {}
    /\ handed = <<>>
    /\ buffer = <<>>
    /\ written = <<>>

Init == \E initialized_filters \in InitializedFilters : InitWith(initialized_filters)

\* --------------------------------------------------------- DataLog::matches
\* matching_filters with the test of the filter against the topic left out
matching_filters_unfiltered(topic) ==
    { filter_indexes[filter] : filter \in DOMAIN filter_indexes }

\* The indices of the registered filters that match topic.
matching_filters(topic) ==
    { filter_indexes[filter] :
        filter \in { f \in DOMAIN filter_indexes : matches(topic, f) } }

\* insert_on_miss without the test for an empty result
insert_on_miss_always(cache, topic, v) == HashMap_insert(cache, topic, v)

\* The cache after a miss on topic computed v.
insert_on_miss(cache, topic, v) ==
    IF v # <<>> THEN HashMap_insert(cache, topic, v) ELSE cache

DataLog_matches(topic) ==
    /\ IF topic \in DOMAIN publish_filters
       THEN /\ ret' = [op |-> "matches", arg |-> topic,
                       val |-> Some(publish_filters[topic])]
            /\ UNCHANGED publish_filters
       ELSE \E v \in Orderings(matching_filters(topic)) :
                /\ publish_filters' = insert_on_miss(publish_filters, topic, v)
                /\ ret' = [op |-> "matches", arg |-> topic, val |-> Some(v)]
    /\ UNCHANGED <<native, filter_indexes, retained_publishes, filter_read_markers,
                   notifications, acklog_vars, parks, issued, handed, codec_vars>>

\* ----------------------------------------------- DataLog::next_native_offset
\* push_matching with the loop over the cached topics left out
push_matching_skipped(cache, filter, idx) == cache

\* The cache after the new filter idx was matched against the cached topics.
push_matching(cache, filter, idx) ==
    [topic \in DOMAIN cache |->
        IF matches(topic, filter) THEN Append(cache[topic], idx) ELSE cache[topic]]

\* lookup_or_create without the lookup: an entry is created on every call
lookup_or_create_unconditionally(filter) ==
    LET ins == Slab_insert(native, Data_new(filter))
    IN  [native |-> ins.slab,
         filter_indexes |-> HashMap_insert(filter_indexes, filter, ins.key),
         publish_filters |-> push_matching(publish_filters, filter, ins.key),
         idx |-> ins.key]

\* [native, filter_indexes, publish_filters, idx] after the lookup of filter
lookup_or_create(filter) ==
    IF filter \in DOMAIN filter_indexes
    THEN [native |-> native, filter_indexes |-> filter_indexes,
          publish_filters |-> publish_filters, idx |-> filter_indexes[filter]]
    ELSE LET ins == Slab_insert(native, Data_new(filter))
         IN  [native |-> ins.slab,
              filter_indexes |-> HashMap_insert(filter_indexes, filter, ins.key),
              publish_filters |-> push_matching(publish_filters, filter, ins.key),
              idx |-> ins.key]

next_native_offset(filter) ==
    LET r == lookup_or_create(filter)
        offset == CommitLog_next_offset(Slab_get(r.native, r.idx).log)
    IN  /\ native' = r.native
        /\ filter_indexes' = r.filter_indexes
        /\ publish_filters' = r.publish_filters
        /\ ret' = [op |-> "next_native_offset", arg |-> filter,
                   val |-> <<r.idx, offset>>]
        /\ issued' = issued \cup { <<filter, r.idx>> }
        /\ UNCHANGED <<retained_publishes, filter_read_markers, notifications,
                       acklog_vars, parks, handed, codec_vars>>

\* ---------------------------------------------------------- DataLog::park
\* A DataRequest names its filter entry; serial stands for the rest of the
\* request (cursor, read counts, qos) and differs from one park call to the next.
DataRequest(filter_idx, serial) == [filter_idx |-> filter_idx, serial |-> serial]

park(id, request) ==
    /\ Slab_contains(native, request.filter_idx)
    /\ native' = [native EXCEPT ![request.filter_idx + 1].waiters =
                      Waiters_register(@, id, request)]
    /\ parks' = parks + 1
    /\ ret' = [op |-> "park", arg |-> <<id, request>>, val |-> None]
    /\ UNCHANGED <<filter_indexes, retained_publishes, publish_filters,
                   filter_read_markers, notifications, acklog_vars, issued, handed, codec_vars>>

\* --------------------------------------------------------- DataLog::clean
\* [native, inflight] after the waiters of entries from..Len(slab) - 1 were
\* cleaned of id, in key order.
RECURSIVE clean_from(_, _, _, _)
clean_from(slab, id, from, inflight) ==
    IF from >= Len(slab) THEN [native |-> slab, inflight |-> inflight]
    ELSE LET r == Waiters_remove(Slab_get(slab, from).waiters, id)
         IN  clean_from([slab EXCEPT ![from + 1].waiters = r.waiters],
                        id, from + 1, inflight \o r.removed)

\* DataLog_clean stopping after the first entry
DataLog_clean_first_entry(slab, id) ==
    IF slab = <<>> THEN [native |-> slab, inflight |-> <<>>]
    ELSE LET r == Waiters_remove(Slab_get(slab, 0).waiters, id)
         IN  [native |-> [slab EXCEPT ![1].waiters = r.waiters], inflight |-> r.removed]

DataLog_clean(slab, id) == clean_from(slab, id, 0, <<>>)

clean(id) ==
    /\ native' = DataLog_clean(native, id).native
    /\ ret' = [op |-> "clean", arg |-> id, val |-> DataLog_clean(native, id).inflight]
    /\ UNCHANGED <<filter_indexes, retained_publishes, publish_filters,
                   filter_read_markers, notifications, acklog_vars, parks,
                   issued, handed, codec_vars>>

\* ------------------------------------------- DataLog::remove_waiters_for_id
\* Option of the first position (from 1) of an entry of connection id
position(waiters, id) ==
    IF \E i \in DOMAIN waiters : waiters[i][1] = id
    THEN Some(CHOOSE i \in DOMAIN waiters :
                 /\ waiters[i][1] = id
                 /\ \A j \in 1..(i - 1) : waiters[j][1] # id)
    ELSE None

\* VecDeque::swap_remove_back: the entry at index leaves and the last entry
\* takes its place.
swap_remove_back(deque, index) ==
    IF index \notin DOMAIN deque THEN [deque |-> deque, removed |-> None]
    ELSE [deque |-> [i \in 1..(Len(deque) - 1) |->
                        IF i = index THEN deque[Len(deque)] ELSE deque[i]],
          removed |-> Some(deque[index])]

remove_waiters_for_id(id, filter) ==
    /\ IF filter \notin DOMAIN filter_indexes
       THEN /\ ret' = [op |-> "remove_waiters_for_id", arg |-> <<id, filter>>,
                       val |-> None]
            /\ UNCHANGED native
       ELSE LET idx == filter_indexes[filter]
                waiters == Slab_get(native, idx).waiters
                at == position(waiters, id)
            IN  IF at = None
                THEN /\ ret' = [op |-> "remove_waiters_for_id",
                                arg |-> <<id, filter>>, val |-> None]
                     /\ UNCHANGED native
                ELSE LET r == swap_remove_back(waiters, at[1])
                     IN  /\ native' = [native EXCEPT ![idx + 1].waiters = r.deque]
                         /\ ret' = [op |-> "remove_waiters_for_id",
                                    arg |-> <<id, filter>>,
                                    val |-> Some(r.removed[1][2])]
    /\ UNCHANGED <<filter_indexes, retained_publishes, publish_filters,
                   filter_read_markers, notifications, acklog_vars, parks,
                   issued, handed, codec_vars>>

\* ---------------------------------------------------------- Data::append
\* The driver appends an inbound publish to an entry DataLog::matches gave it.
append(idx, item) ==
    /\ Slab_contains(native, idx)
    /\ \E filter \in DOMAIN filter_indexes :
           filter_indexes[filter] = idx /\ matches(item.topic, filter)
    /\ LET r == Data_append(Slab_get(native, idx), item, notifications)
       IN  /\ native' = [native EXCEPT ![idx + 1] = r.data]
           /\ notifications' = r.notifications
           /\ ret' = [op |-> "append", arg |-> <<idx, item>>,
                      val |-> <<r.offset, r.data.filter>>]
    /\ UNCHANGED <<filter_indexes, retained_publishes, publish_filters,
                   filter_read_markers, acklog_vars, parks, issued, handed, codec_vars>>

\* --------------------------------------------------- retained publishes
insert_to_retained_publishes(publish, topic) ==
    /\ retained_publishes' = HashMap_insert(retained_publishes, topic, publish)
    /\ ret' = [op |-> "insert_to_retained_publishes", arg |-> <<publish, topic>>,
               val |-> None]
    /\ UNCHANGED <<native, filter_indexes, publish_filters, filter_read_markers,
                   notifications, acklog_vars, parks, issued, handed, codec_vars>>

remove_from_retained_publishes(topic) ==
    /\ retained_publishes' = HashMap_remove(retained_publishes, topic)
    /\ ret' = [op |-> "remove_from_retained_publishes", arg |-> topic, val |-> None]
    /\ UNCHANGED <<native, filter_indexes, publish_filters, filter_read_markers,
                   notifications, acklog_vars, parks, issued, handed, codec_vars>>

\* handle_retained_messages taking every retained topic for a match
retained_all(filter) == DOMAIN retained_publishes

\* The retained topics handle_retained_messages appends for filter.
retained_matching(filter) ==
    { topic \in DOMAIN retained_publishes : matches(topic, filter) }

\* [data, notifications] after the retained publishes of topics were appended
\* in the order given.
RECURSIVE append_retained(_, _, _)
append_retained(data, topics, notifs) ==
    IF topics = <<>> THEN [data |-> data, notifications |-> notifs]
    ELSE LET r == Data_append(data, retained_publishes[Head(topics)], notifs)
         IN  append_retained(r.data, Tail(topics), r.notifications)

handle_retained_messages(filter) ==
    /\ filter \in DOMAIN filter_indexes
    /\ LET idx == filter_indexes[filter]
           datalog == Slab_get(native, idx)
       IN  \E topics \in Orderings(retained_matching(filter)) :
               LET r == append_retained(datalog, topics, notifications)
               IN  /\ native' = [native EXCEPT ![idx + 1] = r.data]
                   /\ notifications' = r.notifications
                   /\ ret' = [op |-> "handle_retained_messages", arg |-> filter,
                              val |-> None]
    /\ UNCHANGED <<filter_indexes, retained_publishes, publish_filters,
                   filter_read_markers, acklog_vars, parks, issued, handed, codec_vars>>

\* -------------------------------------------------------------- ReadMarker
ReadMarker_default == [subscriber_markers |-> EmptyMap, slowest_marker |-> None]

\* Option of the least offset of a set of offsets
min_offset(offsets) ==
    IF offsets = {} THEN None
    ELSE Some(CHOOSE m \in offsets : \A o \in offsets : OffsetLE(m, o))

\* compute_slowest_marker leaving the cached slowest marker as it was
compute_slowest_marker_cached(self) == [marker |-> self, moved |-> FALSE]

\* [marker |-> the ReadMarker after the call, moved |-> the value returned]
compute_slowest_marker(self) ==
    LET prev_slowest_marker == self.slowest_marker
        slowest == min_offset(Range(self.subscriber_markers))
    IN  [marker |-> [self EXCEPT !.slowest_marker = slowest],
         moved |-> OptOffsetLT(prev_slowest_marker, slowest)]

ReadMarker_update_subscriber_marker(self, subscriber_id, marker) ==
    compute_slowest_marker(
        [self EXCEPT !.subscriber_markers = HashMap_insert(@, subscriber_id, marker)])

get_slowest_marker(self) == self.slowest_marker

\* The offsets a subscriber of the entry can stand at: those of its live
\* items and the next one.
RECURSIVE SegmentOffsets(_, _)
SegmentOffsets(log, n) ==
    IF n = 0 THEN {}
    ELSE { <<log.head + n - 1, i - 1>> : i \in DOMAIN log.segments[n] }
         \cup SegmentOffsets(log, n - 1)

Cursors(log) == SegmentOffsets(log, Len(log.segments)) \cup { CommitLog_next_offset(log) }

\* HashMap::entry(key).or_default()
entry_or_default(map, key) == IF key \in DOMAIN map THEN map[key] ELSE ReadMarker_default

register_subscriber(filter_id, start_cursor, subscriber_id) ==
    /\ Slab_contains(native, filter_id)
    /\ LET marker == entry_or_default(filter_read_markers, filter_id)
           r == ReadMarker_update_subscriber_marker(marker, subscriber_id, start_cursor)
       IN  /\ filter_read_markers' = HashMap_insert(filter_read_markers, filter_id, r.marker)
           /\ ret' = [op |-> "register_subscriber",
                      arg |-> <<filter_id, start_cursor, subscriber_id>>, val |-> None]
    /\ UNCHANGED <<native, filter_indexes, retained_publishes, publish_filters,
                   notifications, acklog_vars, parks, issued, handed, codec_vars>>

\* The driver reports the progress of a registered subscriber.
update_subscriber_marker(filter_id, subscriber_id, marker) ==
    /\ filter_id \in DOMAIN filter_read_markers
    /\ subscriber_id \in DOMAIN filter_read_markers[filter_id].subscriber_markers
    /\ LET r == ReadMarker_update_subscriber_marker(
                    filter_read_markers[filter_id], subscriber_id, marker)
       IN  /\ filter_read_markers' = [filter_read_markers EXCEPT ![filter_id] = r.marker]
           /\ ret' = [op |-> "update_subscriber_marker",
                      arg |-> <<filter_id, subscriber_id, marker>>, val |-> r.moved]
    /\ UNCHANGED <<native, filter_indexes, retained_publishes, publish_filters,
                   notifications, acklog_vars, parks, issued, handed, codec_vars>>

\* ------------------------------------------------------------------ AckLog
AckLog_self == [committed |-> committed, recorded |-> recorded,
                deferred_acks |-> deferred_acks]

Ack(kind, ack) == [kind |-> kind, ack |-> ack]

\* The packet of the next AckLog call: calls are told apart by their order.
NextPacket == Len(committed) + Len(handed) + 1

AckBudget == Len(committed) + Len(handed) < MaxAcks

AckLog_set(self, op, arg, val) ==
    /\ committed' = self.committed
    /\ recorded' = self.recorded
    /\ deferred_acks' = self.deferred_acks
    /\ ret' = [op |-> op, arg |-> arg, val |-> val]
    /\ UNCHANGED <<datalog_vars, notifications, parks, issued, codec_vars>>

\* commit putting the ack at the front of the queue
commit_front(self, ack) == [self EXCEPT !.committed = <<ack>> \o @]

commit(self, ack) == [self EXCEPT !.committed = Append(@, ack)]

connack(id, ack) ==
    /\ AckBudget
    /\ AckLog_set(commit(AckLog_self, [kind |-> "ConnAck", id |-> id, ack |-> ack]),
                  "connack", <<id, ack>>, None)
    /\ UNCHANGED handed

suback(ack) ==
    /\ AckBudget
    /\ AckLog_set(commit(AckLog_self, Ack("SubAck", ack)), "suback", ack, None)
    /\ UNCHANGED handed

\* AckLog::puback is private and has no caller in the file.
puback(self, ack) == commit(self, Ack("PubAck", ack))

pubrec(publish, ack) ==
    /\ AckBudget
    /\ AckLog_set(commit([AckLog_self EXCEPT !.recorded = Append(@, publish)],
                         Ack("PubRec", ack)),
                  "pubrec", <<publish, ack>>, None)
    /\ UNCHANGED handed

pubrel(ack) ==
    /\ AckBudget
    /\ AckLog_set(commit(AckLog_self, Ack("PubRel", ack)), "pubrel", ack, None)
    /\ UNCHANGED handed

\* VecDeque::pop_back
pop_back(deque) ==
    IF deque = <<>> THEN [deque |-> deque, popped |-> None]
    ELSE [deque |-> SubSeq(deque, 1, Len(deque) - 1), popped |-> Some(deque[Len(deque)])]

\* VecDeque::pop_front
pop_front(deque) ==
    IF deque = <<>> THEN [deque |-> deque, popped |-> None]
    ELSE [deque |-> Tail(deque), popped |-> Some(Head(deque))]

pubcomp(ack) ==
    /\ AckBudget
    /\ LET after == commit(AckLog_self, Ack("PubComp", ack))
           r == pop_front(after.recorded)
       IN  AckLog_set([after EXCEPT !.recorded = r.deque], "pubcomp", ack, r.popped)
    /\ UNCHANGED handed

pingresp(ack) ==
    /\ AckBudget
    /\ AckLog_set(commit(AckLog_self, Ack("PingResp", ack)), "pingresp", ack, None)
    /\ UNCHANGED handed

unsuback(ack) ==
    /\ AckBudget
    /\ AckLog_set(commit(AckLog_self, Ack("UnsubAck", ack)), "unsuback", ack, None)
    /\ UNCHANGED handed

readv ==
    /\ AckLog_set(AckLog_self, "readv", None, committed)
    /\ UNCHANGED handed

\* insert_pending_acks committing the PubAck at once
AckLog_insert_pending_acks_at_once(self, ack, offset_map) == puback(self, ack)

\* The body of AckLog::insert_pending_acks is a comment: the AckLog is left as
\* it was.
AckLog_insert_pending_acks(self, ack, offset_map) == self

\* The offset map the driver builds for a publish appended to the entries S:
\* the offset of the last append on each.
offset_map_of(S) == [idx \in S |-> Slab_get(native, idx).meter.append_offset]

insert_pending_acks(ack, offset_map) ==
    /\ AckBudget
    /\ AckLog_set(AckLog_insert_pending_acks(AckLog_self, ack, offset_map),
                  "insert_pending_acks", <<ack, offset_map>>, None)
    /\ handed' = Append(handed, [puback |-> ack, offset_map |-> offset_map])

\* ------------------------------------------------------------ PubComp calls
\* The PubComp values written
Pkids == { 7, 258 }

Strings == { <<>>, <<111, 107>>, Repeat(120, LongStringLen) }

UserProperties == { << <<107>>, <<118>> >>, << <<>>, Repeat(118, LongStringLen) >> }

SeqsUpTo(S, n) == UNION { [1..k -> S] : k \in 0..n }

PubCompPropertiesValues ==
    [reason_string : { None } \cup { Some(string) : string \in Strings },
     user_properties : SeqsUpTo(UserProperties, MaxUserProperties)]

PubComps ==
    [pkid : Pkids, reason : PubCompReason,
     properties : { None } \cup { Some(p) : p \in PubCompPropertiesValues }]

\* pubcomp.write(&mut buffer)
write(packet) ==
    /\ LET r == PubComp_write(packet, buffer)
       IN  /\ buffer' = r.buffer
           /\ ret' = [op |-> "write", arg |-> packet, val |-> r.result]
    /\ written' = Append(written, packet)
    /\ UNCHANGED <<datalog_vars, notifications, acklog_vars, parks, issued, handed>>

\* The receiver takes the packet at the front of the buffer and decodes it:
\* PubComp::read(fixed_header, bytes).
read ==
    /\ buffer # <<>>
    /\ LET fixed_header == parse_fixed_header(buffer).value
           bytes == SubSeq(buffer, 1,
                           fixed_header.fixed_header_len + fixed_header.remaining_len)
       IN  /\ ret' = [op |-> "read", arg |-> <<fixed_header, bytes>>,
                      val |-> PubComp_read(fixed_header, bytes)]
           /\ buffer' = advance(buffer, Len(bytes))
    /\ written' = Tail(written)
    /\ UNCHANGED <<datalog_vars, notifications, acklog_vars, parks, issued, handed>>

\* ------------------------------------------------------------ specifications
\* Number of Data::append calls on all entries so far
RECURSIVE Appended(_)
Appended(slab) ==
    IF slab = <<>> THEN 0 ELSE Head(slab).meter.count + Appended(Tail(slab))

\* What the calls so far have put into the DataLog beside filter entries
Used ==
    Cardinality(DOMAIN publish_filters) + parks + Appended(native)
    + Cardinality(DOMAIN retained_publishes) + Cardinality(DOMAIN filter_read_markers)

Budget == Used < MaxCalls

\* Every operation of the DataLog
Next ==
    \/ \E filter \in Filters : next_native_offset(filter)
    \/ \E topic \in Topics :
           (Budget \/ topic \in DOMAIN publish_filters) /\ DataLog_matches(topic)
    \/ \E id \in ConnectionIds, idx \in Slab_keys(native) :
           Budget /\ park(id, DataRequest(idx, parks + 1))
    \/ \E id \in ConnectionIds : clean(id)
    \/ \E id \in ConnectionIds, filter \in Filters : remove_waiters_for_id(id, filter)
    \/ \E idx \in Slab_keys(native), item \in Publishes : Budget /\ append(idx, item)
    \/ \E publish \in Publishes :
           Budget /\ insert_to_retained_publishes(publish, publish.topic)
    \/ \E topic \in Topics : remove_from_retained_publishes(topic)
    \/ \E filter \in Filters : Budget /\ handle_retained_messages(filter)
    \/ \E idx \in Slab_keys(native), id \in ConnectionIds :
           \E start_cursor \in Cursors(Slab_get(native, idx).log) :
               Budget /\ register_subscriber(idx, start_cursor, id)

Spec == Init /\ [][Next]_vars

\* The topic to filters cache
CacheNext ==
    \/ \E filter \in Filters : next_native_offset(filter)
    \/ \E topic \in Topics : DataLog_matches(topic)

CacheSpec == Init /\ [][CacheNext]_vars

\* The waiters of the filter entries, from a DataLog warmed up with two filters
WarmInit == InitWith(Some(<< <<"a", "+">>, <<"#">> >>))

WaiterNext ==
    \/ \E id \in ConnectionIds, idx \in Slab_keys(native) :
           parks < MaxParks /\ park(id, DataRequest(idx, parks + 1))
    \/ \E id \in ConnectionIds : clean(id)
    \/ \E id \in ConnectionIds, filter \in Filters : remove_waiters_for_id(id, filter)
    \/ \E idx \in Slab_keys(native), item \in Publishes :
           Appended(native) < MaxWakes /\ append(idx, item)

WaiterSpec == WarmInit /\ [][WaiterNext]_vars

\* The AckLog of one connection and the read markers its deferred acks wait for
AckNext ==
    \/ \E id \in ConnectionIds : connack(id, NextPacket)
    \/ suback(NextPacket)
    \/ \E publish \in Publishes : pubrec(publish, NextPacket)
    \/ pubrel(NextPacket)
    \/ pubcomp(NextPacket)
    \/ pingresp(NextPacket)
    \/ unsuback(NextPacket)
    \/ readv
    \/ \E S \in SUBSET { idx \in Slab_keys(native) : Slab_get(native, idx).meter.count > 0 } :
           insert_pending_acks(NextPacket, offset_map_of(S))

AckSpec == WarmInit /\ [][AckNext]_vars

\* The deferred acks of connection 1, which publishes; the other connections
\* subscribe and move the read markers the acks wait for.
Subscribers == ConnectionIds \ { 1 }

DeferredNext ==
    \/ \E S \in SUBSET { idx \in Slab_keys(native) : Slab_get(native, idx).meter.count > 0 } :
           insert_pending_acks(NextPacket, offset_map_of(S))
    \/ readv
    \/ \E idx \in Slab_keys(native), item \in Publishes :
           Appended(native) < MaxWakes /\ append(idx, item)
    \/ \E idx \in Slab_keys(native), id \in Subscribers :
           \E start_cursor \in Cursors(Slab_get(native, idx).log) :
               register_subscriber(idx, start_cursor, id)
    \/ \E idx \in Slab_keys(native), id \in Subscribers :
           \E marker \in Cursors(Slab_get(native, idx).log) :
               update_subscriber_marker(idx, id, marker)

DeferredSpec == WarmInit /\ [][DeferredNext]_vars

\* The router loop never stops calling into the logs.
DeferredFairSpec == DeferredSpec /\ WF_vars(DeferredNext)

\* The read markers of the filter entries: every connection subscribes at any
\* cursor of an entry's log and reports its progress.
MarkerNext ==
    \/ \E idx \in Slab_keys(native), item \in Publishes :
           Appended(native) < MaxWakes /\ append(idx, item)
    \/ \E idx \in Slab_keys(native), id \in ConnectionIds :
           \E start_cursor \in Cursors(Slab_get(native, idx).log) :
               register_subscriber(idx, start_cursor, id)
    \/ \E idx \in Slab_keys(native), id \in ConnectionIds :
           \E marker \in Cursors(Slab_get(native, idx).log) :
               update_subscriber_marker(idx, id, marker)

MarkerSpec == WarmInit /\ [][MarkerNext]_vars

\* The retained publishes, from a DataLog warmed up with a filter for one
\* topic and a filter for all topics
RetainedInit == InitWith(Some(<< <<"a", "b">>, <<"#">> >>))

RetainedPublishes == [topic : Topics, payload : 1..MaxRetainedPayload]

RetainedNext ==
    \/ \E publish \in RetainedPublishes :
           insert_to_retained_publishes(publish, publish.topic)
    \/ \E topic \in Topics : remove_from_retained_publishes(topic)
    \/ \E filter \in Filters :
           /\ Appended(native) + Cardinality(retained_matching(filter)) <= MaxRetainedAppends
           /\ handle_retained_messages(filter)

RetainedSpec == RetainedInit /\ [][RetainedNext]_vars

\* The log of a filter entry: publishes of every size are appended until
\* segments roll over and the oldest is dropped.
LogPublishes == [topic : Topics, payload : 1..MaxLogPayload]

AppendNext ==
    \E idx \in Slab_keys(native), item \in LogPublishes :
        Appended(native) < MaxLogAppends /\ append(idx, item)

AppendSpec == WarmInit /\ [][AppendNext]_vars

\* The PubComp codec: packets are written to the buffer and read back.
CodecNext ==
    \/ \E packet \in PubComps : Len(written) < MaxBuffered /\ write(packet)
    \/ read

CodecSpec == WarmInit /\ [][CodecNext]_vars

\* Connections subscribe, report their progress and disconnect.
DisconnectNext ==
    \/ MarkerNext
    \/ \E id \in ConnectionIds : clean(id)

DisconnectSpec == WarmInit /\ [][DisconnectNext]_vars

\* ------------------------------------------------------------------ claims
\* The indices under which filter_indexes registers a filter that matches topic
RegisteredMatching(topic) ==
    { idx \in Slab_keys(native) :
        \E filter \in DOMAIN filter_indexes :
            filter_indexes[filter] = idx /\ matches(topic, filter) }

Last(s) == s[Len(s)]

\* C1: after any sequence of next_native_offset and matches calls, the indices
\* of every cached entry T -> L are exactly those of the registered filters
\* that match T.
C1_CacheCorrect ==
    \A topic \in DOMAIN publish_filters :
        Range(publish_filters[topic]) = RegisteredMatching(topic)

\* A filter created after two topics were cached joined the entry of the one it
\* matches and not the entry of the other.
C1_Witness ==
    /\ ret.op = "next_native_offset"
    /\ \E t1 \in DOMAIN publish_filters, t2 \in DOMAIN publish_filters :
           /\ Len(publish_filters[t1]) >= 2
           /\ Last(publish_filters[t1]) = ret.val[1]
           /\ ret.val[1] \notin Range(publish_filters[t2])

\* C2: DataLog::matches(T) returns exactly the indices of the registered
\* filters that match T, each once, from the cache or on a miss.
C2_MatchesExact ==
    ret.op = "matches" =>
        /\ ret.val # None
        /\ Range(ret.val[1]) = RegisteredMatching(ret.arg)
        /\ Cardinality(Range(ret.val[1])) = Len(ret.val[1])

\* matches returned two filters for one topic while another registered filter
\* does not match it.
C2_Witness ==
    /\ ret.op = "matches"
    /\ Len(ret.val[1]) >= 2
    /\ \E filter \in DOMAIN filter_indexes : ~matches(ret.arg, filter)

C4_Stable ==
    /\ \A p \in issued :
           /\ Slab_contains(native, p[2])
           /\ Slab_get(native, p[2]).filter = p[1]
    /\ \A p \in issued, q \in issued : (p[1] = q[1]) <=> (p[2] = q[2])

C4_IndexStable ==
    [][ /\ C4_Stable'
        /\ \A p \in issued :
               (ret'.op = "next_native_offset" /\ ret'.arg = p[1]) =>
                   /\ ret'.val[1] = p[2]
                   /\ Len(native') = Len(native) ]_vars

\* next_native_offset called for a filter it has returned an index for, after a
\* park and an append on that entry.
C4_Witness ==
    /\ ret.op = "next_native_offset"
    /\ parks >= 1
    /\ Cardinality(issued) >= 2
    /\ \E p \in issued :
           /\ ret.arg = p[1]
           /\ ret.val = <<p[2], <<0, 1>> >>

\* The PubAck p is in the committed queue
PubAckCommitted(p) ==
    \E i \in DOMAIN committed : committed[i] = Ack("PubAck", p)

\* The slowest read marker of filter entry idx
Threshold(idx) ==
    IF idx \in DOMAIN filter_read_markers
    THEN get_slowest_marker(filter_read_markers[idx])
    ELSE None

\* Every subscriber of entry idx has persisted the publish appended at offset
Persisted(idx, offset) == ~OptOffsetLT(Threshold(idx), Some(offset))

\* C5: a PubAck given to insert_pending_acks with a non-empty offset_map is not
\* in the committed queue while the slowest read marker of some filter of the
\* map is below the offset of the publish on that filter.
C5_Withheld ==
    \A k \in DOMAIN handed :
        (\E idx \in DOMAIN handed[k].offset_map :
             ~Persisted(idx, handed[k].offset_map[idx]))
            => ~PubAckCommitted(handed[k].puback)

\* A PubAck whose publish is persisted on one filter of its map and not on the
\* other.
C5_Witness ==
    \E k \in DOMAIN handed :
        \E idx \in DOMAIN handed[k].offset_map, other \in DOMAIN handed[k].offset_map :
            /\ Persisted(idx, handed[k].offset_map[idx])
            /\ ~Persisted(other, handed[k].offset_map[other])
            /\ ~PubAckCommitted(handed[k].puback)

\* The k-th PubAck given to insert_pending_acks, with a map that is not empty,
\* may be released: its publish is persisted on every filter of its map and
\* the earlier ones are committed.
Releasable(k) ==
    /\ k \in DOMAIN handed
    /\ DOMAIN handed[k].offset_map # {}
    /\ \A idx \in DOMAIN handed[k].offset_map :
           Persisted(idx, handed[k].offset_map[idx])
    /\ \A j \in 1..(k - 1) : PubAckCommitted(handed[j].puback)

\* C6: a PubAck given to insert_pending_acks is eventually in the committed
\* queue once the slowest read markers have reached its offsets and the
\* earlier PubAcks are released.
C6_EventuallyReleased ==
    \A k \in 1..MaxAcks :
        Releasable(k) ~> (k \in DOMAIN handed /\ PubAckCommitted(handed[k].puback))

\* C8: after insert_pending_acks with an empty offset_map, no earlier PubAck
\* pending, the PubAck is in the committed queue.
C8_ReleasedAtOnce ==
    ( /\ ret.op = "insert_pending_acks"
      /\ DOMAIN ret.arg[2] = {}
      /\ \A j \in 1..(Len(handed) - 1) : PubAckCommitted(handed[j].puback) )
        => PubAckCommitted(ret.arg[1])

\* The waiters of entry idx of a slab
WaitersOf(slab, idx) == Slab_get(slab, idx).waiters

\* Waiters in the order of their park calls
RegistrationOrder(waiters) ==
    SortSeq(waiters, LAMBDA a, b : a[2].serial < b[2].serial)

\* The entry a step appends to, if it appends: <<idx>>, else <<>>
AppendedTo ==
    IF ret'.op = "append" THEN Some(ret'.arg[1])
    ELSE IF ret'.op = "handle_retained_messages" /\ native' # native
    THEN Some(filter_indexes[ret'.arg])
    ELSE None

\* C9: a Data::append on an entry leaves its waiter set empty, appends the
\* waiters it had to the notifications after those already there, in the order
\* of their registration, and leaves the waiter sets of the other entries as
\* they were.
C9_AppendWakesAll ==
    [][ AppendedTo # None =>
            LET idx == AppendedTo[1]
            IN  /\ WaitersOf(native', idx) = <<>>
                /\ notifications' =
                       notifications \o RegistrationOrder(WaitersOf(native, idx))
                /\ \A other \in Slab_keys(native) \ { idx } :
                       WaitersOf(native', other) = WaitersOf(native, other) ]_vars

\* The requests connection id has parked on the entries of a slab
ParkedBy(slab, id) ==
    { e[2] : e \in { w \in UNION { Range(WaitersOf(slab, idx)) : idx \in Slab_keys(slab) } :
                       w[1] = id } }

\* C10: clean(id) takes the requests of id out of the waiter set of every
\* entry and returns exactly them; the entries of the other connections, the
\* filter table, the logs and the cache stay as they were.
C10_CleanFrame ==
    [][ ret'.op = "clean" =>
            LET id == ret'.arg
            IN  /\ ParkedBy(native', id) = {}
                /\ Range(ret'.val) = ParkedBy(native, id)
                /\ Len(ret'.val) = Cardinality(ParkedBy(native, id))
                /\ Len(native') = Len(native)
                /\ \A idx \in Slab_keys(native) :
                       /\ Range(WaitersOf(native', idx)) =
                              { w \in Range(WaitersOf(native, idx)) : w[1] # id }
                       /\ Len(WaitersOf(native', idx)) =
                              Cardinality({ w \in Range(WaitersOf(native, idx)) : w[1] # id })
                       /\ Slab_get(native', idx).filter = Slab_get(native, idx).filter
                       /\ Slab_get(native', idx).log = Slab_get(native, idx).log
                       /\ Slab_get(native', idx).meter = Slab_get(native, idx).meter
                /\ UNCHANGED <<filter_indexes, publish_filters, retained_publishes,
                               filter_read_markers, notifications>> ]_vars

\* clean returned requests parked on two entries while a request of another
\* connection stays parked.
C10_Witness ==
    /\ ret.op = "clean"
    /\ \E r1 \in Range(ret.val), r2 \in Range(ret.val) : r1.filter_idx # r2.filter_idx
    /\ \E idx \in Slab_keys(native) : WaitersOf(native, idx) # <<>>

\* The markers of the subscribers of filter entry idx
SubscriberMarkers(idx) == entry_or_default(filter_read_markers, idx).subscriber_markers

\* The step is a register_subscriber call that adds a subscriber, or a call
\* that gives a subscriber a marker not behind the one it had.
AddsOrAdvances ==
    /\ ret'.op \in { "register_subscriber", "update_subscriber_marker" }
    /\ LET idx == ret'.arg[1]
           id == IF ret'.op = "register_subscriber" THEN ret'.arg[3] ELSE ret'.arg[2]
           marker == IF ret'.op = "register_subscriber" THEN ret'.arg[2] ELSE ret'.arg[3]
       IN  id \in DOMAIN SubscriberMarkers(idx) =>
               OffsetLE(SubscriberMarkers(idx)[id], marker)

\* C11: over register_subscriber calls and update_subscriber_marker calls that
\* move a marker forward, the slowest marker of every filter never decreases.
C11_SlowestMonotone ==
    [][ AddsOrAdvances =>
            \A idx \in Slab_keys(native) : ~OptOffsetLT(Threshold(idx)', Threshold(idx)) ]_vars

\* The markers of the subscribers of a ReadMarker
MarkersOf(marker) == Range(marker.subscriber_markers)

C13_RecordedFifo ==
    [][ IF ret'.op = "pubrec"
        THEN recorded' = Append(recorded, ret'.arg[1])
        ELSE IF ret'.op = "pubcomp"
        THEN /\ committed' = Append(committed, Ack("PubComp", ret'.arg))
             /\ IF recorded = <<>>
                THEN ret'.val = None /\ recorded' = <<>>
                ELSE ret'.val = Some(Head(recorded)) /\ recorded' = Tail(recorded)
        ELSE recorded' = recorded ]_vars

\* pubcomp returned the older of two recorded publishes and left the newer.
C13_Witness ==
    /\ ret.op = "pubcomp"
    /\ Len(ret.val) = 1
    /\ Len(recorded) = 1
    /\ recorded[1] # ret.val[1]

\* The ack a call commits: <<ack>>, or <<>> for a call that commits none
CommittedBy(call) ==
    CASE call.op = "connack" ->
             Some([kind |-> "ConnAck", id |-> call.arg[1], ack |-> call.arg[2]])
      [] call.op = "suback" -> Some(Ack("SubAck", call.arg))
      [] call.op = "pubrec" -> Some(Ack("PubRec", call.arg[2]))
      [] call.op = "pubrel" -> Some(Ack("PubRel", call.arg))
      [] call.op = "pubcomp" -> Some(Ack("PubComp", call.arg))
      [] call.op = "pingresp" -> Some(Ack("PingResp", call.arg))
      [] call.op = "unsuback" -> Some(Ack("UnsubAck", call.arg))
      [] OTHER -> None

\* s is the beginning of t
IsPrefix(s, t) == Len(s) <= Len(t) /\ SubSeq(t, 1, Len(s)) = s

\* C14: connack, suback, pubrec, pubrel, pubcomp, pingresp and unsuback each
\* put one ack of their kind at the back of the committed queue, readv hands
\* out the queue in the order of the calls, and no operation removes or
\* reorders a committed ack.
C14_CommittedInCallOrder ==
    [][ /\ CommittedBy(ret') # None => committed' = committed \o CommittedBy(ret')
        /\ IsPrefix(committed, committed')
        /\ ret'.op = "readv" =>
               /\ ret'.val = committed'
               /\ \A i \in DOMAIN committed', j \in DOMAIN committed' :
                      i < j => committed'[i].ack < committed'[j].ack ]_vars

\* readv handed out three acks of three kinds.
C14_Witness ==
    /\ ret.op = "readv"
    /\ Len(ret.val) = MaxAcks
    /\ Cardinality({ ret.val[i].kind : i \in DOMAIN ret.val }) >= 3

\* The live items of a log, oldest first
RECURSIVE Flatten(_)
Flatten(segments) ==
    IF segments = <<>> THEN <<>> ELSE Head(segments) \o Flatten(Tail(segments))

\* The last k live items of a log
LastItems(log, k) ==
    LET items == Flatten(log.segments)
    IN  { items[i] : i \in (Len(items) - k + 1)..Len(items) }

\* C15: handle_retained_messages(filter) appends to the log of filter one
\* clone of the retained publish of every topic that matches filter and of no
\* other, appends to no other log and leaves the retained table alone; the
\* retained publish of a topic is the last one inserted and not removed since.
C15_RetainedAppended ==
    [][ /\ ret'.op = "insert_to_retained_publishes" =>
               retained_publishes' =
                   [topic \in DOMAIN retained_publishes \cup { ret'.arg[2] } |->
                        IF topic = ret'.arg[2] THEN ret'.arg[1]
                        ELSE retained_publishes[topic]]
        /\ ret'.op = "remove_from_retained_publishes" =>
               retained_publishes' =
                   [topic \in DOMAIN retained_publishes \ { ret'.arg } |->
                        retained_publishes[topic]]
        /\ ret'.op = "handle_retained_messages" =>
               LET filter == ret'.arg
                   idx == filter_indexes[filter]
                   matching == { topic \in DOMAIN retained_publishes :
                                   matches(topic, filter) }
                   before == Slab_get(native, idx)
                   after == Slab_get(native', idx)
               IN  /\ after.meter.count = before.meter.count + Cardinality(matching)
                   /\ LastItems(after.log, Cardinality(matching)) =
                          { retained_publishes[topic] : topic \in matching }
                   /\ matching = {} => after.log = before.log
                   /\ \A other \in Slab_keys(native) \ { idx } :
                          Slab_get(native', other).log = Slab_get(native, other).log
                   /\ retained_publishes' = retained_publishes ]_vars

\* handle_retained_messages appended, to the entry of the filter of one topic,
\* the publish retained last for that topic while another topic has a
\* retained publish too.
C15_Witness ==
    /\ ret.op = "handle_retained_messages"
    /\ ret.arg = <<"a", "b">>
    /\ DOMAIN retained_publishes = Topics
    /\ retained_publishes[<<"a", "b">>].payload = MaxRetainedPayload
    /\ LET data == Slab_get(native, filter_indexes[ret.arg])
       IN  /\ data.meter.count >= 2
           /\ CommitLog_last(data.log) = Some(retained_publishes[<<"a", "b">>])

\* C16: on one filter entry every Data::append returns an offset greater than
\* the one before, and leaves meter.append_offset equal to the offset it
\* returned.
C16_OffsetsIncrease ==
    [][ ret'.op = "append" =>
            LET idx == ret'.arg[1]
                before == Slab_get(native, idx)
                after == Slab_get(native', idx)
                offset == ret'.val[1]
            IN  /\ after.meter.append_offset = offset
                /\ before.meter.count > 0 =>
                       OffsetLT(before.meter.append_offset, offset) ]_vars

\* An append landed in the third segment of an entry, after the first
\* segment was dropped.
C16_Witness ==
    /\ ret.op = "append"
    /\ ret.val[1] = <<max_segment_count, 0>>
    /\ Slab_get(native, ret.arg[1]).log.head = 1

\* C17: PubComp::read of the bytes PubComp::write produced for a PubComp
\* returns a value equal to that PubComp.
C17_RoundTrip ==
    [][ ret'.op = "read" => ret'.val = Ok(Head(written)) ]_vars

\* The bytes a write call appended to the buffer
Appended_bytes == advance(buffer', Len(buffer))

\* C18: PubComp::size equals the number of bytes PubComp::write appends to
\* the buffer, and write returns that number.
C18_SizeLaw ==
    [][ ret'.op = "write" =>
            /\ IsPrefix(buffer, buffer')
            /\ PubComp_size(ret'.arg) = Len(Appended_bytes)
            /\ ret'.val = Ok(Len(Appended_bytes)) ]_vars

\* A PubComp whose remaining length takes two bytes was written.
C18_Witness ==
    /\ ret.op = "write"
    /\ ret.val.value >= 128 + 3
    /\ Len(buffer) >= 128 + 3

\* C19: for reason Success and no properties PubComp::write puts 0x70, the
\* remaining length 2 and the two bytes of the packet identifier and nothing
\* else; for every other PubComp it puts the byte of the reason and a
\* property length after the packet identifier.
C19_ShortForm ==
    [][ ret'.op = "write" =>
            LET packet == ret'.arg
                bytes == Appended_bytes
                fixed_header == parse_fixed_header(bytes).value
                body == advance(bytes, fixed_header.fixed_header_len)
            IN  IF packet.reason = "Success" /\ packet.properties = None
                THEN bytes = <<112, 2, packet.pkid \div 256, packet.pkid % 256>>
                ELSE /\ bytes[1] = 112
                     /\ fixed_header.remaining_len = Len(body)
                     /\ Len(body) >= 4
                     /\ SubSeq(body, 1, 2) = <<packet.pkid \div 256, packet.pkid % 256>>
                     /\ body[3] = (IF packet.reason = "Success" THEN 0 ELSE 146)
                     /\ length(advance(body, 3)).ok
                     /\ Len(body) = 3 + length(advance(body, 3)).value[1]
                                      + length(advance(body, 3)).value[2] ]_vars

\* The short form of packet 7 was written.
C19_Witness ==
    /\ ret.op = "write"
    /\ ret.arg = [pkid |-> 7, reason |-> "Success", properties |-> None]
    /\ buffer = <<112, 2, 0, 7>>

\* C20: the waiters of every filter entry stand in the order of their
\* registration, whatever operations have run: remove_waiters_for_id leaves
\* the remaining waiters in the order in which they parked.
C20_WaitersFifo ==
    \A idx \in Slab_keys(native) :
        WaitersOf(native, idx) = RegistrationOrder(WaitersOf(native, idx))

\* C21: after clean(id) connection id has no marker in the read marker of any
\* filter, so it no longer holds a slowest marker back.
C21_CleanDropsMarkers ==
    ret.op = "clean" =>
        \A idx \in DOMAIN filter_read_markers :
            ret.arg \notin DOMAIN filter_read_markers[idx].subscriber_markers

\* C22: filter_indexes and native correspond one to one: every native entry
\* is the index of exactly one filter of filter_indexes, and stores that
\* filter.
C22_OneToOne ==
    /\ \A filter \in DOMAIN filter_indexes :
           /\ Slab_contains(native, filter_indexes[filter])
           /\ Slab_get(native, filter_indexes[filter]).filter = filter
    /\ \A idx \in Slab_keys(native) :
           Cardinality({ filter \in DOMAIN filter_indexes :
                           filter_indexes[filter] = idx }) = 1

\* The <<ConnectionId, DataRequest>> pairs parked on the entries of a slab
Parked(slab) == UNION { Range(WaitersOf(slab, idx)) : idx \in Slab_keys(slab) }

\* Number of waiters on all entries of a slab
RECURSIVE ParkedCount(_)
ParkedCount(slab) ==
    IF slab = <<>> THEN 0 ELSE Len(Head(slab).waiters) + ParkedCount(Tail(slab))

\* What a step hands back to the driver, as a sequence of pairs: the
\* notifications it appended, or the requests clean or remove_waiters_for_id
\* returned.
HandedBack ==
    IF ret'.op \in { "append", "handle_retained_messages" }
    THEN SubSeq(notifications', Len(notifications) + 1, Len(notifications'))
    ELSE IF ret'.op = "clean"
    THEN [i \in DOMAIN ret'.val |-> <<ret'.arg, ret'.val[i]>>]
    ELSE IF ret'.op = "remove_waiters_for_id"
    THEN [i \in DOMAIN ret'.val |-> <<ret'.arg[1], ret'.val[i]>>]
    ELSE <<>>

\* C23: a parked DataRequest stays in one waiter set until a step hands it
\* back, the step that takes it out of the waiter set hands it back once, and
\* no step hands back a request that is not parked: every request is handed
\* back exactly once, by an append, by clean or by remove_waiters_for_id.
C23_HandedBackOnce ==
    [][ /\ Parked(native) \ Parked(native') = Range(HandedBack)
        /\ Len(HandedBack) = Cardinality(Range(HandedBack))
        /\ IsPrefix(notifications, notifications')
        /\ Parked(native') \ Parked(native) =
               (IF ret'.op = "park" THEN { ret'.arg } ELSE {})
        /\ Parked(native') \cap Parked(native) # Parked(native') =>
               ret'.arg[2].serial \notin { w[2].serial : w \in Parked(native) }
        /\ ParkedCount(native') = Cardinality(Parked(native')) ]_vars

\* Of three parked requests one was woken by an append and another returned
\* by clean.
C23_Witness ==
    /\ ret.op = "clean"
    /\ Len(ret.val) = 1
    /\ Len(notifications) = 1
    /\ parks = MaxParks
    /\ ParkedCount(native) = 1

\* C24: after remove_waiters_for_id(id, filter) on a registered filter no
\* waiter of that filter belongs to id; on a filter that is not registered it
\* returns nothing.
C24_NoWaiterLeft ==
    ret.op = "remove_waiters_for_id" =>
        IF ret.arg[2] \in DOMAIN filter_indexes
        THEN \A w \in Range(WaitersOf(native, filter_indexes[ret.arg[2]])) :
                 w[1] # ret.arg[1]
        ELSE ret.val = None

====
